---- MODULE Spec2Model ----
(***************************************************************************)
(* Model of appbus.py: the OBD-II trip pipeline (process_data,             *)
(* calculate_scores, maintenance_system, get_maintenance_recommendations)  *)
(* and the script run that stores its result in st.session_state.df.       *)
(*                                                                         *)
(* A DataFrame is a record [len, cols]: cols maps each column name to a    *)
(* series, a sequence of len values.  Integer-valued columns (speed, rpm,  *)
(* the lags, the deltas, the integer scores) hold integers, NaN standing   *)
(* for a missing value.  Real-valued columns hold exact rationals          *)
(* [num, den] in lowest terms; den = 0 encodes the IEEE specials: 0/0 is   *)
(* NaN, -1/0 is -inf, 1/0 is +inf.  tire_wear is half a standard           *)
(* deviation, a square root: the column holds its square (the map x -> x^2 *)
(* is strictly increasing on the non-negative reals, so clipping to        *)
(* [0,100] and comparing with 70 are done on squares, exactly).            *)
(* Floating-point rounding is not modelled.                                *)
(***************************************************************************)
EXTENDS Integers, Sequences, FiniteSets, TLC

VARIABLES session_df, run, rec, loaded, stage, frame, last, other

vars == <<session_df, run, rec, loaded, stage, frame, last, other>>

\* Python None (a record, so that it compares with DataFrames and rows)
None == [none |-> TRUE]

(***************************************************************************)
(* Numbers                                                                 *)
(***************************************************************************)
\* a missing value of an integer column (no measurement takes this value)
NaN == 999999999

Abs(x) == IF x < 0 THEN -x ELSE x

RECURSIVE GCD(_, _)
GCD(a, b) == IF b = 0 THEN a ELSE GCD(b, a % b)

\* The rational n/d (d > 0) in lowest terms.
Rat(n, d) == LET g == GCD(Abs(n), d) IN [num |-> n \div g, den |-> d \div g]

RInt(n) == [num |-> n, den |-> 1]
RNaN == [num |-> 0, den |-> 0]
RNegInf == [num |-> -1, den |-> 0]
RPosInf == [num |-> 1, den |-> 0]
RIsNaN(x) == x.den = 0 /\ x.num = 0

\* float comparison: any comparison with NaN is False
RGt(a, b) == ~RIsNaN(a) /\ ~RIsNaN(b) /\ a.num * b.den > b.num * a.den
RLt(a, b) == RGt(b, a)

\* float division a / b of finite rationals (numpy: x/0 is +-inf, 0/0 is nan)
RDiv(a, b) ==
    IF RIsNaN(a) \/ RIsNaN(b) THEN RNaN
    ELSE IF b.num = 0
         THEN (IF a.num = 0 THEN RNaN ELSE IF a.num > 0 THEN RPosInf ELSE RNegInf)
         ELSE IF b.num > 0 THEN Rat(a.num * b.den, a.den * b.num)
              ELSE Rat(-(a.num * b.den), a.den * (-b.num))

\* float addition, NaN and the infinities included
RAdd(a, b) ==
    IF RIsNaN(a) \/ RIsNaN(b) THEN RNaN
    ELSE IF a.den = 0 /\ b.den = 0 THEN (IF a.num = b.num THEN a ELSE RNaN)
    ELSE IF a.den = 0 THEN a
    ELSE IF b.den = 0 THEN b
    ELSE Rat(a.num * b.den + b.num * a.den, a.den * b.den)

RNeg(a) == [num |-> -a.num, den |-> a.den]
RSub(a, b) == RAdd(a, RNeg(b))
RScale(k, a) == IF a.den = 0 THEN (IF k = 0 THEN RNaN ELSE IF k > 0 THEN a ELSE RNeg(a))
                ELSE Rat(k * a.num, a.den)

\* integer arithmetic with missing values
Sub(a, b) == IF a = NaN \/ b = NaN THEN NaN ELSE a - b
Gt(a, b) == a # NaN /\ b # NaN /\ a > b
Lt(a, b) == a # NaN /\ b # NaN /\ a < b

(***************************************************************************)
(* pandas Series operations (a series is a sequence)                       *)
(***************************************************************************)
Idx(s) == 1..Len(s)

\* a series built row by row, held as a sequence (its values computed once)
Ser(f) == f \o <<>>

\* mutant: the delta is not clipped
ClipInt_none(x, lo, hi) == x

\* Series.clip(lo, hi) on one integer value: NaN stays NaN
ClipInt(x, lo, hi) == IF x = NaN THEN NaN ELSE IF x < lo THEN lo ELSE IF x > hi THEN hi ELSE x

\* Series.clip(lo, hi) on one rational value: NaN stays NaN
Clip(x, lo, hi) ==
    IF RIsNaN(x) THEN x ELSE IF RLt(x, RInt(lo)) THEN RInt(lo)
    ELSE IF RGt(x, RInt(hi)) THEN RInt(hi) ELSE x

\* Series.fillna(v)
FillNa(s, v) == Ser([i \in Idx(s) |-> IF s[i] = NaN THEN v ELSE s[i]])
RFillNa(s, v) == Ser([i \in Idx(s) |-> IF RIsNaN(s[i]) THEN v ELSE s[i]])

\* Series.bfill(): a missing value takes the next known value after it
Bfill(s) ==
    LET n == Len(s)
        f[i \in 1..n] == IF s[i] # NaN THEN s[i] ELSE IF i = n THEN NaN ELSE f[i + 1]
    IN  Ser([i \in 1..n |-> f[i]])

\* Series.ffill(): a missing value takes the last known value before it
Ffill(s) ==
    LET n == Len(s)
        f[i \in 1..n] == IF s[i] # NaN THEN s[i] ELSE IF i = 1 THEN NaN ELSE f[i - 1]
    IN  Ser([i \in 1..n |-> f[i]])

RFfill(s) ==
    LET n == Len(s)
        f[i \in 1..n] == IF ~RIsNaN(s[i]) THEN s[i] ELSE IF i = 1 THEN RNaN ELSE f[i - 1]
    IN  Ser([i \in 1..n |-> f[i]])

\* mutant: shift(-1), the next sample instead of the previous one
Shift1_lead(s) == Ser([i \in Idx(s) |-> IF i = Len(s) THEN NaN ELSE s[i + 1]])

\* Series.shift(1)
Shift1(s) == Ser([i \in Idx(s) |-> IF i = 1 THEN NaN ELSE s[i - 1]])

\* the positions of the rolling window that ends at i, and its observations
Window(i, w) == (IF i - w + 1 < 1 THEN 1 ELSE i - w + 1)..i
Obs(s, i, w) == {j \in Window(i, w) : s[j] # NaN}

\* sum of the known values s[lo..hi] (a rolling sum skips missing values)
RECURSIVE SumRange(_, _, _)
SumRange(s, lo, hi) ==
    IF lo > hi THEN 0
    ELSE IF lo = hi THEN (IF s[lo] = NaN THEN 0 ELSE s[lo])
    ELSE LET mid == (lo + hi) \div 2
         IN  SumRange(s, lo, mid) + SumRange(s, mid + 1, hi)

\* the sum of the observations of the window that ends at i
WindowSum(s, i, w) == SumRange(s, IF i - w + 1 < 1 THEN 1 ELSE i - w + 1, i)

\* k-th smallest (k = 0, 1, ...) of the values s[j], j in J
Kth(s, J, k) ==
    CHOOSE v \in {s[j] : j \in J} :
        /\ Cardinality({j \in J : s[j] < v}) <= k
        /\ k < Cardinality({j \in J : s[j] <= v})

\* numpy/pandas quantile with linear interpolation, q given in percent
QuantileOf(s, J, q) ==
    LET m == Cardinality(J)
        pos == q * (m - 1)
        lo == pos \div 100
        fr == pos % 100
        a == Kth(s, J, lo)
        b == IF fr = 0 THEN a ELSE Kth(s, J, lo + 1)
    IN  Rat(100 * a + fr * (b - a), 100)

\* Series.rolling(w, min_periods=mp).quantile(q/100)
RollingQuantile(s, w, mp, q) ==
    Ser([i \in Idx(s) |->
            LET J == Obs(s, i, w)
            IN  IF Cardinality(J) < mp THEN RNaN ELSE QuantileOf(s, J, q)])

(***************************************************************************)
(* DataFrames                                                              *)
(***************************************************************************)
Columns(df) == DOMAIN df.cols
AddCol(df, name, s) ==
    [df EXCEPT !.cols = [c \in DOMAIN df.cols \cup {name} |->
                            IF c = name THEN s ELSE df.cols[c]]]

\* a raised exception, as the value a stage returns instead of a DataFrame
Raised(e) == [error |-> e]
IsError(r) == "error" \in DOMAIN r

\* str.lower() on the column names that occur in uploads
Lower(name) ==
    CASE name = "Speed" -> "speed"
      [] name = "SPEED" -> "speed"
      [] name = "RPM" -> "rpm"
      [] name = "Rpm" -> "rpm"
      [] name = "Engine_Load" -> "engine_load"
      [] OTHER -> name

\* df.columns = df.columns.str.lower()
LowerColumns(df) ==
    [df EXCEPT !.cols = [c \in {Lower(k) : k \in DOMAIN df.cols} |->
                            df.cols[CHOOSE k \in DOMAIN df.cols : Lower(k) = c]]]

\* df.bfill().ffill(), column by column
FillFrame(df) == [df EXCEPT !.cols = [c \in DOMAIN df.cols |-> Ffill(Bfill(df.cols[c]))]]

ToR(x) == IF x = NaN THEN RNaN ELSE RInt(x)

WINDOW == 100
MIN_PERIODS == 10
DEFAULT_SPEED_LIMIT == 80
DEFAULT_IDLE_RPM == 1500
IDLE_SPEED == 5

\* (df['speed'] - df['speed_prev']).clip(-b, b).fillna(0)
Increase(cur, prev, b) ==
    FillNa(Ser([i \in Idx(cur) |-> ClipInt(Sub(cur[i], prev[i]), -b, b)]), 0)

\* df['speed'].rolling(100, min_periods=10).quantile(0.85).fillna(80)
DynamicSpeedLimit(speed) ==
    RFillNa(RollingQuantile(speed, WINDOW, MIN_PERIODS, 85), RInt(DEFAULT_SPEED_LIMIT))

\* df.loc[df['speed'] < 5, 'rpm']: the positions kept, in order
IdlePositions(speed) ==
    SelectSeq([i \in Idx(speed) |-> i], LAMBDA i : Lt(speed[i], IDLE_SPEED))
Rank(P, i) == Cardinality({k \in 1..Len(P) : P[k] <= i})

\* the series df.loc[df['speed'] < 5, 'rpm'].rolling(100, min_periods=10)
\* .quantile(0.90).ffill().fillna(1500): one value per idle row
IdleSubThreshold(speed, rpm) ==
    LET P == IdlePositions(speed)
        sub == Ser([k \in 1..Len(P) |-> rpm[P[k]]])
    IN  RFillNa(RFfill(RollingQuantile(sub, WINDOW, MIN_PERIODS, 90)),
                RInt(DEFAULT_IDLE_RPM))

\* df['idle_rpm_threshold'] = <that series>: the assignment aligns on the row
\* index, so a row the series has no entry for (a non-idle row) gets NaN
IdleRpmThreshold(speed, rpm) ==
    LET P == IdlePositions(speed)
        t == IdleSubThreshold(speed, rpm)
    IN  Ser([i \in Idx(speed) |-> IF Lt(speed[i], IDLE_SPEED) THEN t[Rank(P, i)] ELSE RNaN])

process_data(df0) ==
    LET df == FillFrame(LowerColumns(df0))
    IN  IF "speed" \notin Columns(df) THEN Raised("KeyError: 'speed'")
        ELSE IF "rpm" \notin Columns(df) THEN Raised("KeyError: 'rpm'")
        ELSE
        LET speed == df.cols["speed"]
            rpm == df.cols["rpm"]
            speed_prev == Bfill(Shift1(speed))
            rpm_prev == Bfill(Shift1(rpm))
            d1 == AddCol(df, "speed_prev", speed_prev)
            d2 == AddCol(d1, "rpm_prev", rpm_prev)
            d3 == AddCol(d2, "speed_increase", Increase(speed, speed_prev, 50))
            d4 == AddCol(d3, "rpm_increase", Increase(rpm, rpm_prev, 5000))
            d5 == AddCol(d4, "dynamic_speed_limit", DynamicSpeedLimit(speed))
        IN  AddCol(d5, "idle_rpm_threshold", IdleRpmThreshold(speed, rpm))

(***************************************************************************)
(* calculate_scores                                                        *)
(***************************************************************************)
\* (k * (x - t) / t).where(x > t, 0).fillna(0), row by row
RelativePenalty(k, x, t) ==
    LET v == RDiv(RScale(k, RSub(ToR(x), t)), t)
        w == IF RGt(ToR(x), t) THEN v ELSE RInt(0)
    IN  IF RIsNaN(w) THEN RInt(0) ELSE w

\* mutant: x >= 10 instead of x > 10
HarshBraking_atLeast(x) ==
    IF x # NaN /\ x >= 10
    THEN LET f == (2 * x) \div 5 IN -(IF f < 15 THEN f ELSE 15)
    ELSE 0

\* lambda x: -min(15, x//2.5) if x > 10 else 0     (x//2.5 = floor(2x/5))
HarshBraking(x) ==
    IF Gt(x, 10)
    THEN LET f == (2 * x) \div 5 IN -(IF f < 15 THEN f ELSE 15)
    ELSE 0

\* np.where((speed_increase > 15) & (rpm_increase > 750), -10, 0)
Acceleration(si, ri) == IF Gt(si, 15) /\ Gt(ri, 750) THEN -10 ELSE 0

\* df[[five scores]].sum(axis=1).fillna(0): NaN entries are skipped
RECURSIVE SumSkipNa(_)
SumSkipNa(xs) ==
    IF xs = <<>> THEN RInt(0)
    ELSE IF RIsNaN(Head(xs)) THEN SumSkipNa(Tail(xs))
    ELSE RAdd(Head(xs), SumSkipNa(Tail(xs)))

\* IsolationForest(contamination=0.1, random_state=42).fit_predict: the
\* library's verdict per row (-1 outlier, 1 inlier) is an input of the model
calculate_scores(df, verdict) ==
    IF df.len = 0 THEN Raised("ValueError: 0 samples")
    ELSE
    LET c == df.cols
        N == 1..df.len
        speeding == Ser([i \in N |-> RelativePenalty(-10, c["speed"][i],
                                                       c["dynamic_speed_limit"][i])])
        idle == Ser([i \in N |->
                    IF Lt(c["speed"][i], IDLE_SPEED)
                    THEN RelativePenalty(-5, c["rpm"][i], c["idle_rpm_threshold"][i])
                    ELSE RInt(0)])
        harsh == FillNa(Ser([i \in N |-> HarshBraking(Sub(c["speed_prev"][i], c["speed"][i]))]), 0)
        accel == Ser([i \in N |-> Acceleration(c["speed_increase"][i], c["rpm_increase"][i])])
        anomaly == Ser([i \in N |-> IF verdict[i] = -1 THEN -20 ELSE 0])
        total == Ser([i \in N |-> SumSkipNa(<<speeding[i], idle[i], RInt(harsh[i]),
                                              RInt(accel[i]), RInt(anomaly[i])>>)])
        d1 == AddCol(df, "speeding_score", speeding)
        d2 == AddCol(d1, "idle_score", idle)
        d3 == AddCol(d2, "harsh_braking_score", harsh)
        d4 == AddCol(d3, "acceleration_score", accel)
        d5 == AddCol(d4, "anomaly_score", anomaly)
    IN  AddCol(d5, "total_score", total)

(***************************************************************************)
(* maintenance_system                                                      *)
(***************************************************************************)
ENGINE_WINDOW == 10
BRAKE_WINDOW == 5
ENGINE_SCALE == 500000
DEFAULT_ENGINE_LOAD == 50

\* df.get('engine_load', 50): the column, or the scalar broadcast over the rows
EngineLoad(df) ==
    IF "engine_load" \in Columns(df) THEN df.cols["engine_load"]
    ELSE Ser([i \in 1..df.len |-> DEFAULT_ENGINE_LOAD])

\* ((rpm * load) / 500000).rolling(10, min_periods=1).mean().clip(0, 100).fillna(0)
EngineStress(rpm, load) ==
    LET prod == Ser([i \in Idx(rpm) |-> IF rpm[i] = NaN \/ load[i] = NaN THEN NaN
                                        ELSE rpm[i] * load[i]])
    IN  Ser([i \in Idx(rpm) |->
            LET J == Obs(prod, i, ENGINE_WINDOW)
                m == IF J = {} THEN RNaN
                     ELSE Rat(WindowSum(prod, i, ENGINE_WINDOW), Cardinality(J) * ENGINE_SCALE)
                v == Clip(m, 0, 100)
            IN  IF RIsNaN(v) THEN RInt(0) ELSE v])

\* mutant: the score is not divided by 15
BrakeWear_unscaled(harsh) ==
    LET a == Ser([i \in Idx(harsh) |-> IF harsh[i] = NaN THEN NaN ELSE Abs(harsh[i])])
    IN  Ser([i \in Idx(harsh) |->
            LET v == Clip(RInt(WindowSum(a, i, BRAKE_WINDOW)), 0, 100)
            IN  IF RIsNaN(v) THEN RInt(0) ELSE v])

\* (harsh.abs() / 15).rolling(5, min_periods=1).sum().clip(0, 100).fillna(0)
BrakeWear(harsh) ==
    LET a == Ser([i \in Idx(harsh) |-> IF harsh[i] = NaN THEN NaN ELSE Abs(harsh[i])])
    IN  Ser([i \in Idx(harsh) |->
            LET J == Obs(a, i, BRAKE_WINDOW)
                m == IF J = {} THEN RNaN ELSE Rat(WindowSum(a, i, BRAKE_WINDOW), 15)
                v == Clip(m, 0, 100)
            IN  IF RIsNaN(v) THEN RInt(0) ELSE v])

\* (speed.rolling(100).std() * 0.5).clip(0, 100).fillna(0), held as its square:
\* std^2 = (n*Sum(x^2) - Sum(x)^2) / (n*(n-1)) over a full window of n = 100
\* observations (min_periods defaults to the window), NaN otherwise
TireWear(speed) ==
    LET sq == Ser([i \in Idx(speed) |-> IF speed[i] = NaN THEN NaN ELSE speed[i] * speed[i]])
    IN  Ser([i \in Idx(speed) |->
            LET J == Obs(speed, i, WINDOW)
                n == Cardinality(J)
                m == IF n < WINDOW THEN RNaN
                     ELSE LET sx == WindowSum(speed, i, WINDOW)
                          IN  Rat(n * WindowSum(sq, i, WINDOW) - sx * sx, 4 * n * (n - 1))
                v == Clip(m, 0, 100 * 100)
            IN  IF RIsNaN(v) THEN RInt(0) ELSE v])

\* y = np.random.randint(0, 2, size=len(df)); model.fit(X, y);
\* model.predict_proba(X)[:,1] * 100.  The labels y and the fitted forest's
\* probabilities proba are inputs of the model; with a single class in y,
\* predict_proba has one column and [:,1] raises IndexError.
maintenance_system(df, y, proba) ==
    LET c == df.cols
        d1 == AddCol(df, "engine_stress", EngineStress(c["rpm"], EngineLoad(df)))
        d2 == AddCol(d1, "brake_wear", BrakeWear(c["harsh_braking_score"]))
        d3 == AddCol(d2, "tire_wear", TireWear(c["speed"]))
    IN  IF {y[i] : i \in 1..df.len} # {0, 1}
        THEN Raised("IndexError: index 1 is out of bounds for axis 1 with size 1")
        ELSE AddCol(d3, "maintenance_urgency", Ser([i \in 1..df.len |-> RScale(100, proba[i])]))

(***************************************************************************)
(* get_maintenance_recommendations                                         *)
(***************************************************************************)
ENGINE_THRESHOLD == 80
BRAKE_THRESHOLD == 60
TIRE_THRESHOLD == 70

\* df.iloc[-1]
LastRow(df) == [c \in Columns(df) |-> df.cols[c][df.len]]

\* mutant: >= 75 instead of > 75
Status_atLeast(row) ==
    IF ~RLt(row["maintenance_urgency"], RInt(75)) THEN "red"
    ELSE IF RGt(row["maintenance_urgency"], RInt(50)) THEN "orange"
    ELSE "green"

Status(row) ==
    IF RGt(row["maintenance_urgency"], RInt(75)) THEN "red"
    ELSE IF RGt(row["maintenance_urgency"], RInt(50)) THEN "orange"
    ELSE "green"

EngineSteps == <<"Check coolant levels", "Inspect oil quality", "Clean air filters">>
BrakeSteps == <<"Measure pad thickness", "Check fluid levels", "Test ABS sensors">>
TireSteps == <<"Check tread depth", "Verify pressure", "Inspect for damage">>

Action(name, steps) == [component |-> name, steps |-> steps]

\* mutant: the brake threshold compared with >= instead of >
Actions_atLeast(row) ==
    (IF RGt(row["engine_stress"], RInt(ENGINE_THRESHOLD))
     THEN <<Action("Engine", EngineSteps)>> ELSE <<>>)
    \o (IF ~RLt(row["brake_wear"], RInt(BRAKE_THRESHOLD))
        THEN <<Action("Brakes", BrakeSteps)>> ELSE <<>>)
    \o (IF RGt(row["tire_wear"], RInt(TIRE_THRESHOLD * TIRE_THRESHOLD))
        THEN <<Action("Tires", TireSteps)>> ELSE <<>>)

\* the loop over components.items(), in insertion order; tire_wear holds a
\* square, so it is compared with the square of its threshold
Actions(row) ==
    (IF RGt(row["engine_stress"], RInt(ENGINE_THRESHOLD))
     THEN <<Action("Engine", EngineSteps)>> ELSE <<>>)
    \o (IF RGt(row["brake_wear"], RInt(BRAKE_THRESHOLD))
        THEN <<Action("Brakes", BrakeSteps)>> ELSE <<>>)
    \o (IF RGt(row["tire_wear"], RInt(TIRE_THRESHOLD * TIRE_THRESHOLD))
        THEN <<Action("Tires", TireSteps)>> ELSE <<>>)

\* on the last row of the DataFrame; the formatted 'urgency' string of an
\* action and the icon are not modelled
Recommend(row) == [status |-> Status(row), actions |-> Actions(row)]

\* df.iloc[-1] raises IndexError on an empty DataFrame, last[metric] raises
\* KeyError when the column is absent
get_maintenance_recommendations(df) ==
    IF df.len = 0 THEN Raised("IndexError: single positional indexer is out-of-bounds")
    ELSE IF ~({"maintenance_urgency", "engine_stress", "brake_wear", "tire_wear"}
                \subseteq Columns(df))
    THEN Raised("KeyError")
    ELSE Recommend(LastRow(df))

(***************************************************************************)
(* Inputs: the uploaded tables and the outcomes of the library calls       *)
(***************************************************************************)
MaxTail == 2
MaxPairTail == 2

Sample(s, r, l) == [speed |-> s, rpm |-> r, engine_load |-> l]

Missing == Sample(NaN, NaN, NaN)
IdleLow == Sample(0, 1000, 50)
IdleHigh == Sample(4, 2000, 100)
Cruise == Sample(60, 2000, 50)
Slower == Sample(50, 2000, 50)
Slow == Sample(40, 3000, 100)
Fast == Sample(300, 2000, 50)
Racing == Sample(60, 1000000, 100)

Samples == {Missing, IdleLow, IdleHigh, Cruise, Slower, Slow, Fast, Racing}
PadSamples == {IdleLow, Cruise}

SeqsUpTo(S, n) == UNION {[1..k -> S] : k \in 0..n}
Rep(x, k) == Ser([i \in 1..k |-> x])

\* the table pd.read_csv returns for a file with the given column names
MkFile(header, rows) ==
    [len |-> Len(rows),
     cols |-> [h \in header |-> Ser([i \in 1..Len(rows) |-> rows[i][Lower(h)]])]]

Plain == {"speed", "rpm"}
Headers == {{"Speed", "RPM"}, {"speed", "rpm", "Engine_Load"}, {"speed"}, {"RPM"}}

ShortRows == SeqsUpTo(Samples, MaxTail)
PaddedRows == {Rep(b, MIN_PERIODS - 1) \o t : b \in PadSamples, t \in ShortRows}
LongRows == {Rep(b, WINDOW - 1) \o t : b \in PadSamples, t \in SeqsUpTo({IdleLow, Fast}, 1)}
HalfRows == {Rep(IdleLow, WINDOW \div 2) \o Rep(b, WINDOW \div 2) \o t :
                b \in {Fast, Sample(500, 2000, 50)}, t \in SeqsUpTo({Cruise}, 1)}

\* a braking ramp: the speed falls by 60 at each of BRAKE_WINDOW samples
RampRows == {Ser([i \in 1..(BRAKE_WINDOW + 1) |-> Sample(60 * (BRAKE_WINDOW + 1 - i), 2000, 50)]) \o t :
                t \in SeqsUpTo({IdleLow}, 1)}

Files ==
    {MkFile(Plain, r) : r \in ShortRows \cup PaddedRows \cup LongRows \cup HalfRows \cup RampRows}
    \cup {MkFile(h, r) : h \in Headers, r \in SeqsUpTo({IdleLow, Slow, Racing}, MaxTail)}

\* fit_predict verdicts the model considers: no outlier, or the last row
Verdicts(n) == {[i \in 1..n |-> 1], [i \in 1..n |-> IF i = n THEN -1 ELSE 1]}

\* np.random.randint(0, 2, size=n): label vectors the model considers
Labels(n) == {[i \in 1..n |-> 0], [i \in 1..n |-> 1], [i \in 1..n |-> i % 2]}

\* predict_proba(X)[:,1]: a forest gives rows with equal features equal
\* probabilities; u for the rows like the last one, v for the others
ProbaLevels == {RInt(0), Rat(1, 2), Rat(51, 100), Rat(3, 4), Rat(76, 100), RInt(1)}
Features(df, i) == <<df.cols["engine_stress"][i], df.cols["brake_wear"][i],
                     df.cols["tire_wear"][i]>>
Probas(df) ==
    {[i \in 1..df.len |-> IF Features(df, i) = Features(df, df.len) THEN u ELSE v] :
        u \in ProbaLevels, v \in {RInt(0), RInt(1)}}

ScoredColumns == {"speeding_score", "idle_score", "harsh_braking_score",
                  "acceleration_score", "anomaly_score", "total_score"}
WearColumns == {"engine_stress", "brake_wear", "tire_wear"}

\* maintenance_system up to the wear columns, for drawing Probas
WithWear(df) ==
    LET c == df.cols
        d1 == AddCol(df, "engine_stress", EngineStress(c["rpm"], EngineLoad(df)))
        d2 == AddCol(d1, "brake_wear", BrakeWear(c["harsh_braking_score"]))
    IN  AddCol(d2, "tire_wear", TireWear(c["speed"]))

(***************************************************************************)
(* PipeSpec: the three stages and the recommendation, applied to one table *)
(***************************************************************************)
PipeInit ==
    /\ stage = "raw" /\ frame \in Files
    /\ rec = None /\ session_df = None /\ run = "start"
    /\ loaded = None /\ last = None /\ other = None

PipeRest == UNCHANGED <<session_df, run, loaded, last, other>>

DoProcessData ==
    /\ stage = "raw"
    /\ frame' = process_data(frame)
    /\ stage' = IF IsError(frame') THEN "failed" ELSE "processed"
    /\ UNCHANGED rec /\ PipeRest

DoCalculateScores ==
    /\ stage = "processed"
    /\ \E verdict \in Verdicts(frame.len) : frame' = calculate_scores(frame, verdict)
    /\ stage' = IF IsError(frame') THEN "failed" ELSE "scored"
    /\ UNCHANGED rec /\ PipeRest

DoMaintenance ==
    /\ stage = "scored"
    /\ \E y \in Labels(frame.len) : \E proba \in Probas(WithWear(frame)) :
          frame' = maintenance_system(frame, y, proba)
    /\ stage' = IF IsError(frame') THEN "failed" ELSE "maintained"
    /\ UNCHANGED rec /\ PipeRest

DoRecommend ==
    /\ stage = "maintained"
    /\ rec' = get_maintenance_recommendations(frame)
    /\ stage' = "recommended"
    /\ UNCHANGED frame /\ PipeRest

PipeNext == DoProcessData \/ DoCalculateScores \/ DoMaintenance \/ DoRecommend

PipeSpec == PipeInit /\ [][PipeNext]_vars

(***************************************************************************)
(* Spec: the script, run once per interaction (lines 16-207).  session_df  *)
(* is st.session_state.df; run is what the run showed; rec is the          *)
(* recommendation the dashboard computed in this run; loaded records the   *)
(* upload whose processing was stored in st.session_state.df.              *)
(***************************************************************************)
MaxUpload == 2

Uploads ==
    {MkFile(Plain, r) : r \in SeqsUpTo({IdleLow, Fast}, MaxUpload)}
    \cup {MkFile(Plain, <<Missing>>), MkFile(Plain, <<Missing, Cruise>>)}
    \cup {MkFile(h, <<IdleLow, Slow>>) : h \in Headers}

Init ==
    /\ session_df = None /\ run = "start" /\ rec = None /\ loaded = None
    /\ stage = None /\ frame = None /\ last = None /\ other = None

SessionRest == UNCHANGED <<stage, frame, last, other>>

\* the body of the try block (lines 195-198) on the uploaded table
Pipeline(file, verdict, y, proba) ==
    LET p == process_data(file)
    IN  IF IsError(p) THEN p
        ELSE LET sc == calculate_scores(p, verdict)
             IN  IF IsError(sc) THEN sc ELSE maintenance_system(sc, y, proba)

\* mutant: st.session_state.df assigned before maintenance_system runs, so a
\* raise in it leaves the scored DataFrame stored
PipelineOutcomes_partial(file) ==
    LET p == process_data(file)
    IN  IF IsError(p) THEN {p}
        ELSE UNION {
            LET sc == calculate_scores(p, verdict)
            IN  IF IsError(sc) THEN {sc}
                ELSE {LET m == maintenance_system(sc, y, proba)
                      IN  IF IsError(m) THEN sc ELSE m :
                        y \in Labels(sc.len), proba \in Probas(WithWear(sc))}
            : verdict \in Verdicts(p.len)}

\* the outcomes of the try block over the library calls' outcomes
PipelineOutcomes(file) ==
    LET p == process_data(file)
    IN  IF IsError(p) THEN {p}
        ELSE UNION {
            LET sc == calculate_scores(p, verdict)
            IN  IF IsError(sc) THEN {sc}
                ELSE {maintenance_system(sc, y, proba) :
                        y \in Labels(sc.len), proba \in Probas(WithWear(sc))}
            : verdict \in Verdicts(p.len)}

\* the dashboard (lines 205-207): rendered when a DataFrame is stored
RunWithoutFile ==
    /\ run' = IF session_df = None THEN "blank" ELSE "dashboard"
    /\ rec' = IF session_df = None THEN None
              ELSE get_maintenance_recommendations(session_df)
    /\ UNCHANGED <<session_df, loaded>> /\ SessionRest

\* an upload that the three stages process: stored, then the dashboard
RunProcessed ==
    \E file \in Uploads : \E df \in PipelineOutcomes(file) :
        /\ ~IsError(df)
        /\ session_df' = df
        /\ loaded' = file
        /\ run' = "dashboard"
        /\ rec' = get_maintenance_recommendations(df)
        /\ SessionRest

\* an upload on which a stage raises: st.error, then st.stop() ends the run
RunFailed ==
    \E file \in Uploads : \E r \in PipelineOutcomes(file) :
        /\ IsError(r)
        /\ run' = "error"
        /\ rec' = None
        /\ UNCHANGED <<session_df, loaded>> /\ SessionRest

Next == RunWithoutFile \/ RunProcessed \/ RunFailed

Spec == Init /\ [][Next]_vars

(***************************************************************************)
(* RecSpec: get_maintenance_recommendations on a last row                  *)
(***************************************************************************)
EngineLevels == {RInt(0), Rat(3, 4), RInt(80), Rat(801, 10), RInt(85), RInt(100)}
BrakeLevels == {RInt(0), Rat(8, 15), RInt(5), RInt(40), RInt(60), Rat(601, 10), RInt(100)}
\* tire_wear levels 0, 10, 70, 70.5, 100, as squares
TireLevels == {RInt(0), RInt(100), RInt(4900), Rat(19881, 4), RInt(10000)}
UrgencyLevels == {RInt(0), RInt(50), Rat(501, 10), RInt(75), Rat(751, 10), RInt(80), RInt(100)}

LastRows ==
    {[engine_stress |-> e, brake_wear |-> b, tire_wear |-> t, maintenance_urgency |-> u] :
        e \in EngineLevels, b \in BrakeLevels, t \in TireLevels, u \in UrgencyLevels}

RecInit ==
    /\ last \in LastRows /\ rec = None
    /\ session_df = None /\ run = "start" /\ loaded = None
    /\ stage = None /\ frame = None /\ other = None

ApplyRecommend ==
    /\ rec = None
    /\ rec' = Recommend(last)
    /\ UNCHANGED <<session_df, run, loaded, stage, frame, last, other>>

RecNext == ApplyRecommend

RecSpec == RecInit /\ [][RecNext]_vars

(***************************************************************************)
(* PairSpec: the three stages on two tables of equal length and columns;   *)
(* loaded keeps the two tables as uploaded                                 *)
(***************************************************************************)
PairSamples == {Missing, IdleLow, Sample(60, 2000, 100)}
PairTails == SeqsUpTo(PairSamples, MaxPairTail)
PairPadded == {Rep(b, MIN_PERIODS - 1) \o t : b \in {IdleLow, Missing}, t \in PairTails}
\* short tables with and without an engine_load column, padded ones without
PairTables ==
    {MkFile(h, r) : h \in {Plain, {"speed", "rpm", "engine_load"}}, r \in PairTails}
    \cup {MkFile(Plain, r) : r \in PairPadded}

PairInit ==
    /\ \E t1 \in PairTables : \E t2 \in PairTables :
          /\ t1.len = t2.len /\ Columns(t1) = Columns(t2)
          /\ frame = t1
          /\ other = t2
    /\ stage = "raw" /\ loaded = <<frame, other>>
    /\ rec = None /\ session_df = None /\ run = "start" /\ last = None

PairRest == UNCHANGED <<session_df, run, rec, loaded, last>>

StageAfter(a, b, ok) == IF IsError(a) \/ IsError(b) THEN "failed" ELSE ok

PairProcessData ==
    /\ stage = "raw"
    /\ frame' = process_data(frame)
    /\ other' = process_data(other)
    /\ stage' = StageAfter(frame', other', "processed")
    /\ PairRest

PairCalculateScores ==
    /\ stage = "processed"
    /\ \E v1 \in Verdicts(frame.len) : frame' = calculate_scores(frame, v1)
    /\ \E v2 \in Verdicts(other.len) : other' = calculate_scores(other, v2)
    /\ stage' = StageAfter(frame', other', "scored")
    /\ PairRest

PairMaintenance ==
    /\ stage = "scored"
    /\ \E y1 \in Labels(frame.len) :
          frame' = maintenance_system(frame, y1, Rep(Rat(1, 2), frame.len))
    /\ \E y2 \in Labels(other.len) :
          other' = maintenance_system(other, y2, Rep(Rat(1, 2), other.len))
    /\ stage' = StageAfter(frame', other', "maintained")
    /\ PairRest

PairNext == PairProcessData \/ PairCalculateScores \/ PairMaintenance

PairSpec == PairInit /\ [][PairNext]_vars

(***************************************************************************)
(* Properties                                                              *)
(***************************************************************************)
Col(df, c) == df.cols[c]
Rows(df) == 1..df.len
Maintained == stage \in {"maintained", "recommended"}
Scored == stage \in {"scored", "maintained", "recommended"}
Between(x, lo, hi) == x.den > 0 /\ ~RLt(x, RInt(lo)) /\ ~RGt(x, RInt(hi))

\* C1: in every trip the three stages processed, every sample has
\* speed_increase in [-50,50], rpm_increase in [-5000,5000], engine_stress,
\* brake_wear, tire_wear and maintenance_urgency in [0,100], and tire_wear is
\* 0 before the 100th sample.
C1_ClippedFieldsInBounds ==
    Maintained =>
        \A i \in Rows(frame) :
            /\ Col(frame, "speed_increase")[i] \in -50..50
            /\ Col(frame, "rpm_increase")[i] \in -5000..5000
            /\ Between(Col(frame, "engine_stress")[i], 0, 100)
            /\ Between(Col(frame, "brake_wear")[i], 0, 100)
            /\ Between(Col(frame, "tire_wear")[i], 0, 100 * 100)
            /\ Between(Col(frame, "maintenance_urgency")[i], 0, 100)
            /\ (i < 100 => Col(frame, "tire_wear")[i] = RInt(0))

\* a processed trip of 100 samples whose 100th speed jump (300) is clipped
\* to 50 and whose tire_wear is positive there
C1_Witness ==
    /\ stage = "maintained" /\ frame.len >= 100
    /\ Gt(Sub(Col(frame, "speed")[100], Col(frame, "speed_prev")[100]), 50)
    /\ Col(frame, "speed_increase")[100] = 50
    /\ RGt(Col(frame, "tire_wear")[100], RInt(0))

\* C2: after process_data, a trip of fewer than 10 samples has
\* dynamic_speed_limit = 80 and idle_rpm_threshold = 1500 at every sample,
\* idle or not.
C2_ShortTripDefaults ==
    (stage = "processed" /\ frame.len < MIN_PERIODS) =>
        \A i \in Rows(frame) :
            /\ Col(frame, "dynamic_speed_limit")[i] = RInt(80)
            /\ Col(frame, "idle_rpm_threshold")[i] = RInt(1500)

\* the verdicts and probabilities a stored DataFrame was computed with
VerdictOf(df) == Ser([i \in Rows(df) |-> IF Col(df, "anomaly_score")[i] = -20 THEN -1 ELSE 1])
ProbaOf(df) == Ser([i \in Rows(df) |-> Rat(Col(df, "maintenance_urgency")[i].num,
                                           100 * Col(df, "maintenance_urgency")[i].den)])
TwoClasses(n) == Ser([i \in 1..n |-> IF i = 1 THEN 0 ELSE 1])

\* st.session_state.df is None, or what the three stages return on loaded
StoredIsFullOutput ==
    \/ session_df = None /\ loaded = None
    \/ /\ session_df # None /\ loaded # None
       /\ ScoredColumns \cup WearColumns \cup {"maintenance_urgency"} \subseteq Columns(session_df)
       /\ session_df.len >= 2
       /\ session_df = Pipeline(loaded, VerdictOf(session_df), TwoClasses(session_df.len),
                                ProbaOf(session_df))

\* C3: a failing upload reports an error, produces no Trip (the stored
\* DataFrame stays what it was) and renders no dashboard in that run; the
\* stored DataFrame is always None or the output of all three stages on one
\* upload.
C3_NoPartialTrip ==
    /\ [](StoredIsFullOutput /\ (run = "error" => rec = None))
    /\ [][run' = "error" => (session_df' = session_df /\ rec' = None)]_vars
    /\ [][session_df' # session_df => (run' = "dashboard" /\ session_df' # None)]_vars

\* a failing upload after a successful one: the error run leaves the
\* earlier Trip stored and shows no recommendation
C3_Witness == run = "error" /\ session_df # None /\ rec = None

\* C4: without a real label source the pipeline still returns a Trip and
\* marks maintenance_urgency unavailable; no numeric urgency is emitted.
C4_UrgencyUnavailable ==
    /\ Maintained => \A i \in Rows(frame) : RIsNaN(Col(frame, "maintenance_urgency")[i])
    /\ ~(stage = "failed" /\ frame = Raised("IndexError: index 1 is out of bounds for axis 1 with size 1"))

\* C5: the status comes from the last sample's maintenance_urgency alone:
\* red above 75, orange above 50 and up to 75, green otherwise; exactly 75
\* is orange and exactly 50 is green.
C5_StatusFromUrgency ==
    rec # None =>
        LET u == last["maintenance_urgency"]
        IN  /\ RGt(u, RInt(75)) => rec.status = "red"
            /\ (RGt(u, RInt(50)) /\ ~RGt(u, RInt(75))) => rec.status = "orange"
            /\ ~RGt(u, RInt(50)) => rec.status = "green"
            /\ u = RInt(75) => rec.status = "orange"
            /\ u = RInt(50) => rec.status = "green"

\* urgency exactly 75 with every wear value at its maximum: orange
C5_Witness ==
    /\ rec # None /\ last["maintenance_urgency"] = RInt(75) /\ rec.status = "orange"
    /\ last["engine_stress"] = RInt(100) /\ last["brake_wear"] = RInt(100)
    /\ last["tire_wear"] = RInt(10000)

ComponentOrder == <<"Engine", "Brakes", "Tires">>
StepsOf(name) == CASE name = "Engine" -> <<"Check coolant levels", "Inspect oil quality", "Clean air filters">>
                   [] name = "Brakes" -> <<"Measure pad thickness", "Check fluid levels", "Test ABS sensors">>
                   [] name = "Tires" -> <<"Check tread depth", "Verify pressure", "Inspect for damage">>
Above(row, k) ==
    CASE k = 1 -> RGt(row["engine_stress"], RInt(80))
      [] k = 2 -> RGt(row["brake_wear"], RInt(60))
      [] k = 3 -> RGt(row["tire_wear"], RInt(70 * 70))
Place(name) == CHOOSE k \in 1..3 : ComponentOrder[k] = name
ExampleRow == [engine_stress |-> RInt(85), brake_wear |-> RInt(40), tire_wear |-> RInt(10 * 10),
               maintenance_urgency |-> RInt(80)]

\* C6: exactly one action for each wear metric strictly above its threshold
\* (80, 60, 70), none for a metric at or below it, in the order Engine,
\* Brakes, Tires, each with its component's checklist; the example row gives
\* status red and the single Engine action.
C6_ActionsPerMetric ==
    rec # None =>
        /\ \A k \in 1..3 :
              Cardinality({p \in 1..Len(rec.actions) : rec.actions[p].component = ComponentOrder[k]})
                 = IF Above(last, k) THEN 1 ELSE 0
        /\ \A p \in 1..Len(rec.actions) :
              /\ rec.actions[p].component \in {"Engine", "Brakes", "Tires"}
              /\ rec.actions[p].steps = StepsOf(rec.actions[p].component)
        /\ \A p, q \in 1..Len(rec.actions) :
              p < q => Place(rec.actions[p].component) < Place(rec.actions[q].component)
        /\ last = ExampleRow =>
              /\ rec.status = "red"
              /\ rec.actions = <<[component |-> "Engine", steps |-> StepsOf("Engine")]>>

\* all three metrics above their thresholds, the tire value the smallest
\* excess: three actions
C6_Witness ==
    /\ rec # None /\ Len(rec.actions) = 3
    /\ last["engine_stress"] = RInt(100) /\ last["brake_wear"] = Rat(601, 10)
    /\ last["tire_wear"] = Rat(19881, 4)

CausalColumns ==
    {"speed_prev", "rpm_prev", "speed_increase", "rpm_increase", "dynamic_speed_limit",
     "idle_rpm_threshold", "speeding_score", "idle_score", "harsh_braking_score",
     "acceleration_score", "engine_stress", "brake_wear", "tire_wear"}

PairProcessed == stage \in {"processed", "scored", "maintained"}
AgreeUpTo(a, b, i) == \A c \in Columns(a) : \A j \in 1..i : a.cols[c][j] = b.cols[c][j]
KnownAt(a, i) == \A c \in Columns(a) : a.cols[c][i] # NaN
SameAt(i) == \A c \in CausalColumns \cap Columns(frame) : Col(frame, c)[i] = Col(other, c)[i]

\* C7 as stated: two raw trips of equal length (missing values allowed) that
\* agree on samples 1..i have the same causal derived fields at sample i.
C7_NoLookahead ==
    PairProcessed =>
        \A i \in Rows(frame) : AgreeUpTo(loaded[1], loaded[2], i) => SameAt(i)

\* C7 as amended: the same, for every sample i at which no raw value is
\* missing (a missing value is back-filled from a later sample).
C7_NoLookaheadWhenKnown ==
    PairProcessed =>
        \A i \in Rows(frame) :
            (AgreeUpTo(loaded[1], loaded[2], i) /\ KnownAt(loaded[1], i)) => SameAt(i)

\* two trips of more than 10 samples, with missing values, that agree on
\* the first 10 and differ at the 11th, processed by all three stages
C7_Witness ==
    /\ stage = "maintained" /\ frame.len > MIN_PERIODS
    /\ AgreeUpTo(loaded[1], loaded[2], MIN_PERIODS) /\ KnownAt(loaded[1], MIN_PERIODS)
    /\ ~AgreeUpTo(loaded[1], loaded[2], MIN_PERIODS + 1)
    /\ \E j \in 1..MIN_PERIODS : ~KnownAt(loaded[1], j)
    /\ frame # other

Delta(df, i) == Sub(Col(df, "speed_prev")[i], Col(df, "speed")[i])
\* -min(15, floor(d / 2.5)) for d > 10, else 0; f = floor(d / 2.5) is the
\* integer with 5f <= 2d < 5f + 5
BrakingScoreFor(d, score) ==
    IF d # NaN /\ d > 10
    THEN \E f \in 0..d : 5 * f <= 2 * d /\ 2 * d < 5 * f + 5
                         /\ score = -(IF f < 15 THEN f ELSE 15)
    ELSE score = 0
BrakingCommon(i) ==
    /\ i > 1 => Col(frame, "speed_prev")[i] = Col(frame, "speed")[i - 1]
    /\ BrakingScoreFor(Delta(frame, i), Col(frame, "harsh_braking_score")[i])
    /\ Col(frame, "harsh_braking_score")[i] \in -15..0
    /\ (Col(frame, "speed_prev")[i] = 60 /\ Col(frame, "speed")[i] = 40)
          => Col(frame, "harsh_braking_score")[i] = -8

\* C8 as stated: harsh_braking_score follows delta = speed_prev - speed,
\* speed_prev being the previous sample's speed and the first sample's delta
\* being 0; -min(15, floor(delta/2.5)) above 10, else 0; always in [-15,0].
C8_HarshBraking ==
    Scored => \A i \in Rows(frame) : BrakingCommon(i) /\ (i = 1 => Delta(frame, i) = 0)

\* C8 as amended: the first sample's delta is 0 when the trip has at least
\* two samples and a known speed; otherwise nothing is back-filled, the
\* delta is missing and the score is 0.
C8_HarshBrakingAmended ==
    Scored =>
        \A i \in Rows(frame) :
            /\ BrakingCommon(i)
            /\ i = 1 => IF frame.len >= 2 /\ Col(frame, "speed")[1] # NaN
                        THEN Delta(frame, 1) = 0
                        ELSE Delta(frame, 1) = NaN /\ Col(frame, "harsh_braking_score")[1] = 0

\* 60 -> 40 scored -8, then 40 -> 0 scored -15
C8_Witness ==
    /\ stage = "scored" /\ frame.len >= 3
    /\ \E i \in 2..(frame.len - 1) :
          /\ Col(frame, "speed_prev")[i] = 60 /\ Col(frame, "speed")[i] = 40
          /\ Col(frame, "harsh_braking_score")[i] = -8
          /\ Delta(frame, i + 1) = 40 /\ Col(frame, "harsh_braking_score")[i + 1] = -15
    /\ Delta(frame, 1) = 0

\* the idle rows up to i, and the WINDOW latest of them
IdleUpTo(df, i) == {j \in 1..i : Lt(Col(df, "speed")[j], IDLE_SPEED)}
Latest(K) == {j \in K : Cardinality({k \in K : k >= j}) <= WINDOW}
KnownRpm(df, K) == {j \in K : Col(df, "rpm")[j] # NaN}

\* C9: idle_rpm_threshold is defined at every sample: 1500 until a 90th
\* percentile of idle rpm is available (10 idle samples), and from then on,
\* at idle and non-idle samples alike, the most recently computed percentile.
C9_IdleThresholdCarried ==
    stage = "processed" =>
        \A i \in Rows(frame) :
            LET J == KnownRpm(frame, Latest(IdleUpTo(frame, i)))
                t == Col(frame, "idle_rpm_threshold")[i]
            IN  /\ ~RIsNaN(t)
                /\ t = IF Cardinality(J) >= MIN_PERIODS
                       THEN QuantileOf(Col(frame, "rpm"), J, 90)
                       ELSE RInt(DEFAULT_IDLE_RPM)

\* C10: harsh_braking_score is in [-15,0], so brake_wear is at most 5 at
\* every sample of a processed trip and no Brakes action is ever emitted.
C10_BrakeWearAtMostFive ==
    Maintained =>
        /\ \A i \in Rows(frame) :
              /\ Col(frame, "harsh_braking_score")[i] \in -15..0
              /\ ~RGt(Col(frame, "brake_wear")[i], RInt(5))
        /\ stage = "recommended" =>
              \A p \in 1..Len(rec.actions) : rec.actions[p].component # "Brakes"

\* five harshest brakings in a row: brake_wear reaches 5, no Brakes action
C10_Witness ==
    /\ stage = "recommended"
    /\ Col(frame, "brake_wear")[frame.len] = RInt(5)
    /\ \A p \in 1..Len(rec.actions) : rec.actions[p].component # "Brakes"

====
